---- MODULE Spec2Model ----
(***************************************************************************)
(* Hospital management system: the appointment and availability            *)
(* scheduling core of app.py over the tables of database.py.               *)
(*                                                                         *)
(* A table is a sequence of rows; a row's id is its index (autoincrement   *)
(* primary key, rows are never deleted).  A handler that reads, decides    *)
(* and then commits (book_appointment, reschedule_appointment,             *)
(* update_availability) is two steps, the read and the commit, so that     *)
(* requests interleave between them: pending is the bag of the requests    *)
(* that have read and not yet committed.  The uniqueness constraints of    *)
(* the tables are enforced by the commit.  A handler that only loads a row *)
(* by id and writes that row is one step; update_appointment_status, which *)
(* also reads the appointment's note before it writes, is modelled as one  *)
(* step and, for interleaved updates, as a read and a commit.              *)
(***************************************************************************)
EXTENDS Integers, Sequences, FiniteSets, Bags, TLC

\* ---------------------------------------------------------------- bounds
MaxAppts == 2      \* rows the appointments table may grow to
MaxPending == 2    \* requests that may be between their read and their commit

Patients == {1, 2}
Doctors == {1, 2}
Departments == {1}
\* (date, time) pairs a form may carry: two times of one day, one time of two days
DaySlots == {<<0, 10>>, <<0, 11>>}
HourSlots == {<<0, 10>>, <<1, 10>>}

\* ----------------------------------------------------- enums (database.py)
BOOKED == "Booked"
COMPLETED == "Completed"
CANCELLED == "Cancelled"

\* AppointmentStatus.__members__: the member NAMES, each mapped to its value.
AppointmentStatusMembers == {"BOOKED", "COMPLETED", "CANCELLED"}

AppointmentStatusByName(name) ==
  CASE name = "BOOKED" -> BOOKED
    [] name = "COMPLETED" -> COMPLETED
    [] name = "CANCELLED" -> CANCELLED

ADMIN == "admin"
DOCTOR == "doctor"
PATIENT == "patient"

\* The callers: current_user, a role and the id of the linked profile.
Callers ==
  {[role |-> ADMIN, id |-> 0]}
    \cup {[role |-> DOCTOR, id |-> d] : d \in Doctors}
    \cup {[role |-> PATIENT, id |-> p] : p \in Patients}

\* The callers a route is tried with: every caller of its role and one of
\* another role.
Outsider(role) ==
  IF role = ADMIN THEN [role |-> DOCTOR, id |-> 1] ELSE [role |-> ADMIN, id |-> 0]

CallersOf(role) == {c \in Callers : c.role = role} \cup {Outsider(role)}

\* ------------------------------------------------------------- responses
\* What a handler answers with: its flash message (followed by a redirect),
\* an abort, or the fault that commit() raises and nothing catches.
Forbidden == "403"                                  \* abort(403)
NotFound == "404"                                   \* get_or_404
IntegrityFault == "500 IntegrityError"              \* out of db.session.commit()
SlotAlreadyBooked == "Slot already booked. Pick another time."
SlotUnavailable == "Selected slot is unavailable."
OutsideWindow == "Select a date within the next 7 days."
Booked == "Appointment booked successfully."
Cancelled == "Appointment cancelled."
Rescheduled == "Appointment rescheduled."
ClinicalUpdated == "Appointment updated."
StatusUpdated == "Appointment status updated."
AvailabilitySaved == "Availability saved."
DoctorToggled == "Doctor status updated."
PatientToggled == "Patient status updated."
DoctorUpdated == "Doctor profile updated."
PatientUpdated == "Patient information updated."
HistoryPage == "200 doctor_patient_history.html"
Unauthorized == "login_manager.unauthorized()"

\* The error kinds of the responses.
ConflictError == {SlotAlreadyBooked, SlotUnavailable}
ForbiddenError == {Forbidden}
NotFoundError == {NotFound}
OutOfWindowError == {OutsideWindow}
UnhandledFault == {IntegrityFault}

NoRow == 0

\* No history has been rendered yet.
NoPage == [patient |-> NoRow, doctor |-> NoRow, history |-> <<>>]

\* ids a request may name: the rows the table can hold, so also ids of no row
ApptIds == 1..MaxAppts

\* request.form["status"]: member names, member values, or no field at all
StatusForms == {"BOOKED", "COMPLETED", "CANCELLED", "Completed", "none"}

VARIABLES
  appts,                  \* table appointments
  notes,                  \* table treatment_notes
  avail,                  \* table doctor_availability
  doctor_is_active,       \* doctors.is_active, per doctor
  doctor_user_is_active,  \* users.is_active of each doctor's user
  patient_user_is_active, \* users.is_active of each patient's user
  doctor_profile,         \* the columns of doctors and users that update_doctor writes
  patient_profile,        \* the columns that admin_update_patient writes
  today,                  \* date.today()
  pending,                \* the requests between their read and their commit
  resp,                   \* the response of the handler that finished last
  page                    \* what doctor_patient_history rendered last

vars ==
  <<appts, notes, avail, doctor_is_active, doctor_user_is_active,
    patient_user_is_active, doctor_profile, patient_profile, today, pending, resp,
    page>>

directory ==
  <<doctor_is_active, doctor_user_is_active, patient_user_is_active,
    doctor_profile, patient_profile>>

\* A doctor as create_doctor makes it and a patient as register makes it.
NewDoctor ==
  [full_name |-> "Dr. A", phone |-> "", specialization |-> "General",
   department_id |-> 1, room |-> "", availability_summary |-> ""]

NewPatient ==
  [full_name |-> "P", phone |-> "", address |-> "none", blood_group |-> "none"]

Init ==
  /\ appts = <<>>
  /\ notes = <<>>
  /\ avail = <<>>
  /\ doctor_is_active = [d \in Doctors |-> TRUE]
  /\ doctor_user_is_active = [d \in Doctors |-> TRUE]
  /\ patient_user_is_active = [p \in Patients |-> TRUE]
  /\ doctor_profile = [d \in Doctors |-> NewDoctor]
  /\ patient_profile = [p \in Patients |-> NewPatient]
  /\ today = 0
  /\ pending = EmptyBag
  /\ resp = "none"
  /\ page = NoPage

\* ------------------------------------------------------------ constraints
SameSlot(a, b) ==
  a.doctor = b.doctor /\ a.date = b.date /\ a.time = b.time

\* A constraint that counts only rows that are not Cancelled.
UniqAmongActive(tbl, i) ==
  \E j \in DOMAIN tbl :
    j # i /\ SameSlot(tbl[i], tbl[j]) /\ tbl[j].status # CANCELLED

\* uniq_doctor_slot: the commit that writes row i fails when another row holds
\* the same (doctor_id, appointment_date, appointment_time).
ViolatesUniqDoctorSlot(tbl, i) ==
  \E j \in DOMAIN tbl : j # i /\ SameSlot(tbl[i], tbl[j])

\* A gate that lets every caller in.
RoleAny(caller, role) == TRUE

\* role_required: the view runs only for a caller of the given role.
RoleAllowed(caller, role) == caller.role = role

\* Appointment.query.filter_by(doctor_id, appointment_date, appointment_time)
SlotRows(d, dt, tm) ==
  {i \in DOMAIN appts :
     appts[i].doctor = d /\ appts[i].date = dt /\ appts[i].time = tm}

\* Query.first(): a row of the result, None when there is none
First(rows) == IF rows = {} THEN {NoRow} ELSE rows

\* At most lim requests are between their read and their commit.
Admit(lim, r) ==
  /\ BagCardinality(pending) < lim
  /\ pending' = pending (+) SetToBag({r})

Retire(r) ==
  /\ BagIn(r, pending)
  /\ pending' = pending (-) SetToBag({r})

Respond(r) == resp' = r

\* ------------------------------------------------------- book_appointment
\* A pre-check that lets a slot be booked again once its appointment is Cancelled.
BookSlotTakenUnlessCancelled(d, dt, tm) ==
  \E i \in DOMAIN appts :
    /\ appts[i].doctor = d /\ appts[i].date = dt /\ appts[i].time = tm
    /\ appts[i].status # "Cancelled"

\* A pre-check that also turns away a time outside the hours the doctor saved
\* for the day.
BookSlotTakenOrOffHours(d, dt, tm) ==
  \/ SlotRows(d, dt, tm) # {}
  \/ ~\E i \in DOMAIN avail :
        /\ avail[i].doctor = d /\ avail[i].date = dt
        /\ avail[i].start <= tm /\ tm < avail[i].end

\* existing = ...first(); if existing: flash + redirect
BookSlotTaken(d, dt, tm) == SlotRows(d, dt, tm) # {}

\* doctors = Doctor.query.filter_by(is_active=True).all(): what the handler
\* reads for the form it renders on GET; the POST branch does not look at it.
ActiveDoctors == {d \in Doctors : doctor_is_active[d]}

\* The read half: role gate, the doctors of the form, the form, the pre-check.
BookCheck(lim, caller, d, dep, dt, tm) ==
  /\ IF ~RoleAllowed(caller, PATIENT)
       THEN Respond(Forbidden) /\ UNCHANGED pending
       ELSE IF BookSlotTaken(d, dt, tm)
         THEN Respond(SlotAlreadyBooked) /\ UNCHANGED pending
         ELSE /\ Admit(lim, [op |-> "book", patient |-> caller.id, doctor |-> d,
                              dept |-> dep, date |-> dt, time |-> tm,
                              doctors |-> ActiveDoctors])
              /\ UNCHANGED resp
  /\ UNCHANGED <<appts, notes, avail, directory, today, page>>

NewAppointment(r) ==
  [patient |-> r.patient, doctor |-> r.doctor, dept |-> r.dept,
   date |-> r.date, time |-> r.time, status |-> BOOKED]

\* A commit that no constraint guards.
BookCommitUnguarded(r) ==
  /\ r.op = "book"
  /\ Len(appts) < MaxAppts
  /\ Retire(r)
  /\ appts' = Append(appts, NewAppointment(r))
  /\ Respond(Booked)
  /\ UNCHANGED <<notes, avail, directory, today, page>>

\* The commit half: db.session.add(appt); db.session.commit()
BookCommit(r) ==
  /\ r.op = "book"
  /\ Len(appts) < MaxAppts
  /\ Retire(r)
  /\ LET tbl == Append(appts, NewAppointment(r))
     IN IF ViolatesUniqDoctorSlot(tbl, Len(tbl))
          THEN appts' = appts /\ Respond(IntegrityFault)
          ELSE appts' = tbl /\ Respond(Booked)
  /\ UNCHANGED <<notes, avail, directory, today, page>>

\* ----------------------------------------------------- cancel_appointment
\* A cancel that deletes the row.
CancelDeletes(caller, id) ==
  /\ RoleAllowed(caller, PATIENT)
  /\ id \in DOMAIN appts
  /\ appts[id].patient = caller.id
  /\ appts' = [i \in 1..(Len(appts) - 1) |->
                 IF i < id THEN appts[i] ELSE appts[i + 1]]
  /\ Respond(Cancelled)
  /\ UNCHANGED <<notes, avail, directory, today, page, pending>>

\* A cancel that does not ask whose appointment it is.
CancelAnyones(caller, id) ==
  /\ RoleAllowed(caller, PATIENT)
  /\ id \in DOMAIN appts
  /\ appts' = [appts EXCEPT ![id].status = CANCELLED]
  /\ Respond(Cancelled)
  /\ UNCHANGED <<notes, avail, directory, today, page, pending>>

\* A cancel that gives a Cancelled appointment back its booking.
CancelToggles(caller, id) ==
  /\ RoleAllowed(caller, PATIENT)
  /\ id \in DOMAIN appts
  /\ appts[id].patient = caller.id
  /\ appts' = [appts EXCEPT ![id].status =
                 IF @ = CANCELLED THEN BOOKED ELSE CANCELLED]
  /\ Respond(Cancelled)
  /\ UNCHANGED <<notes, avail, directory, today, page, pending>>

\* A cancel that takes the treatment note of the appointment with it.
CancelDropsNote(caller, id) ==
  /\ RoleAllowed(caller, PATIENT)
  /\ id \in DOMAIN appts
  /\ appts[id].patient = caller.id
  /\ appts' = [appts EXCEPT ![id].status = CANCELLED]
  /\ notes' = SelectSeq(notes, LAMBDA n : n.appointment # id)
  /\ Respond(Cancelled)
  /\ UNCHANGED <<avail, directory, today, page, pending>>

CancelAppointment(caller, id) ==
  /\ IF ~RoleAllowed(caller, PATIENT)
       THEN Respond(Forbidden) /\ UNCHANGED appts
       ELSE IF id \notin DOMAIN appts
         THEN Respond(NotFound) /\ UNCHANGED appts
         ELSE IF appts[id].patient # caller.id
           THEN Respond(Forbidden) /\ UNCHANGED appts
           ELSE /\ appts' = [appts EXCEPT ![id].status = CANCELLED]
                /\ Respond(Cancelled)
  /\ UNCHANGED <<notes, avail, directory, today, page, pending>>

\* ------------------------------------------------- reschedule_appointment
\* A conflict check that counts the appointment's own row.
ReschedConflictWithSelf(id, c) == c # NoRow

\* A conflict check that finds nothing.
ReschedConflictNever(id, c) == FALSE

\* conflict = ...first(); if conflict and conflict.id != appointment.id
ReschedConflict(id, c) == c # NoRow /\ c # id

ReschedCheck(lim, caller, id, dt, tm) ==
  /\ IF ~RoleAllowed(caller, PATIENT)
       THEN Respond(Forbidden) /\ UNCHANGED pending
       ELSE IF id \notin DOMAIN appts
         THEN Respond(NotFound) /\ UNCHANGED pending
         ELSE IF appts[id].patient # caller.id
           THEN Respond(Forbidden) /\ UNCHANGED pending
           ELSE \E c \in First(SlotRows(appts[id].doctor, dt, tm)) :
                  IF ReschedConflict(id, c)
                    THEN Respond(SlotUnavailable) /\ UNCHANGED pending
                    ELSE /\ Admit(lim, [op |-> "reschedule", id |-> id,
                                         date |-> dt, time |-> tm])
                         /\ UNCHANGED resp
  /\ UNCHANGED <<appts, notes, avail, directory, today, page>>

\* A reschedule that leaves the status as it is.
RescheduledKeepsStatus(a, r) == [a EXCEPT !.date = r.date, !.time = r.time]

\* appointment.appointment_date = new_date; .appointment_time = new_time;
\* .status = BOOKED
RescheduledRow(a, r) ==
  [a EXCEPT !.date = r.date, !.time = r.time, !.status = BOOKED]

ReschedCommit(r) ==
  /\ r.op = "reschedule"
  /\ Retire(r)
  /\ LET tbl == [appts EXCEPT ![r.id] = RescheduledRow(appts[r.id], r)]
     IN IF ViolatesUniqDoctorSlot(tbl, r.id)
          THEN appts' = appts /\ Respond(IntegrityFault)
          ELSE appts' = tbl /\ Respond(Rescheduled)
  /\ UNCHANGED <<notes, avail, directory, today, page>>

\* ---------------------------------------------------- status from a form
\* if status in AppointmentStatus.__members__:
\*     appointment.status = AppointmentStatus[status]
\* A test that also takes the values of the statuses.
ApplyStatusOrValue(a, status) ==
  IF status \in AppointmentStatusMembers
    THEN [a EXCEPT !.status = AppointmentStatusByName(status)]
    ELSE IF status \in {BOOKED, COMPLETED, CANCELLED}
      THEN [a EXCEPT !.status = status]
      ELSE a

ApplyStatus(a, status) ==
  IF status \in AppointmentStatusMembers
    THEN [a EXCEPT !.status = AppointmentStatusByName(status)]
    ELSE a

\* ------------------------------------------------ admin_update_appointment
AdminUpdateAppointment(caller, id, status) ==
  /\ IF ~RoleAllowed(caller, ADMIN)
       THEN Respond(Forbidden) /\ UNCHANGED appts
       ELSE IF id \notin DOMAIN appts
         THEN Respond(NotFound) /\ UNCHANGED appts
         ELSE /\ appts' = [appts EXCEPT ![id] = ApplyStatus(appts[id], status)]
              /\ Respond(StatusUpdated)
  /\ UNCHANGED <<notes, avail, directory, today, page, pending>>

\* ----------------------------------------------- update_appointment_status
\* appointment.treatment_note: the note rows of the appointment
NoteRows(id) == {n \in DOMAIN notes : notes[n].appointment = id}

NoteText(id, text) ==
  [appointment |-> id, diagnosis |-> text[1], prescription |-> text[2],
   notes |-> text[3]]

\* if appointment.treatment_note: overwrite its three fields; else add a note
UpsertNote(id, text, n) ==
  IF n # NoRow
    THEN [notes EXCEPT ![n] = NoteText(id, text)]
    ELSE Append(notes, NoteText(id, text))

\* An update that does not ask whose appointment it is.
UpdateAnyDoctors(caller, id, status, text) ==
  /\ RoleAllowed(caller, DOCTOR)
  /\ id \in DOMAIN appts
  /\ appts' = [appts EXCEPT ![id] = ApplyStatus(appts[id], status)]
  /\ \E n \in First(NoteRows(id)) : notes' = UpsertNote(id, text, n)
  /\ Respond(ClinicalUpdated)
  /\ UNCHANGED <<avail, directory, today, page, pending>>

UpdateAppointmentStatus(caller, id, status, text) ==
  /\ IF ~RoleAllowed(caller, DOCTOR)
       THEN Respond(Forbidden) /\ UNCHANGED <<appts, notes>>
       ELSE IF id \notin DOMAIN appts
         THEN Respond(NotFound) /\ UNCHANGED <<appts, notes>>
         ELSE IF appts[id].doctor # caller.id
           THEN Respond(Forbidden) /\ UNCHANGED <<appts, notes>>
           ELSE /\ appts' = [appts EXCEPT ![id] = ApplyStatus(appts[id], status)]
                /\ \E n \in First(NoteRows(id)) : notes' = UpsertNote(id, text, n)
                /\ Respond(ClinicalUpdated)
  /\ UNCHANGED <<avail, directory, today, page, pending>>

\* A table without the constraint.
UniqNoteUnenforced(tbl, n) == FALSE

\* treatment_notes.appointment_id, unique=True
ViolatesUniqNoteAppointment(tbl, n) ==
  \E m \in DOMAIN tbl : m # n /\ tbl[m].appointment = tbl[n].appointment

\* The handler in two halves, for requests that interleave between the read of
\* appointment.treatment_note and the commit.
ClinicalCheck(lim, caller, id, status, text) ==
  /\ IF ~RoleAllowed(caller, DOCTOR)
       THEN Respond(Forbidden) /\ UNCHANGED pending
       ELSE IF id \notin DOMAIN appts
         THEN Respond(NotFound) /\ UNCHANGED pending
         ELSE IF appts[id].doctor # caller.id
           THEN Respond(Forbidden) /\ UNCHANGED pending
           ELSE \E n \in First(NoteRows(id)) :
                  /\ Admit(lim, [op |-> "clinical", id |-> id, status |-> status,
                                 text |-> text, note |-> n])
                  /\ UNCHANGED resp
  /\ UNCHANGED <<appts, notes, avail, directory, today, page>>

ClinicalCommit(r) ==
  /\ r.op = "clinical"
  /\ Retire(r)
  /\ LET tbl == UpsertNote(r.id, r.text, r.note)
     IN IF r.note = NoRow /\ ViolatesUniqNoteAppointment(tbl, Len(tbl))
          THEN UNCHANGED <<appts, notes>> /\ Respond(IntegrityFault)
          ELSE /\ appts' = [appts EXCEPT ![r.id] = ApplyStatus(appts[r.id], r.status)]
               /\ notes' = tbl
               /\ Respond(ClinicalUpdated)
  /\ UNCHANGED <<avail, directory, today, page>>

\* ---------------------------------------------------- update_availability
WindowDays == 7
MaxAvail == 2      \* rows the doctor_availability table may grow to
MaxToday == 1      \* days that may pass

\* A window that ends the day before today + 7.
InWindowExclusive(dt) == today <= dt /\ dt < today + WindowDays

\* if not (today <= available_date <= today + timedelta(days=7))
InWindow(dt) == today <= dt /\ dt <= today + WindowDays

\* DoctorAvailability.query.filter_by(doctor_id, available_date)
AvailRows(d, dt) ==
  {i \in DOMAIN avail : avail[i].doctor = d /\ avail[i].date = dt}

\* A table without the constraint.
UniqDoctorDateUnenforced(tbl, i) == FALSE

\* uniq_doctor_date_availability
ViolatesUniqDoctorDate(tbl, i) ==
  \E j \in DOMAIN tbl :
    j # i /\ tbl[i].doctor = tbl[j].doctor /\ tbl[i].date = tbl[j].date

AvailabilityCheck(lim, caller, dt, st, en) ==
  /\ IF ~RoleAllowed(caller, DOCTOR)
       THEN Respond(Forbidden) /\ UNCHANGED pending
       ELSE IF ~InWindow(dt)
         THEN Respond(OutsideWindow) /\ UNCHANGED pending
         ELSE \E row \in First(AvailRows(caller.id, dt)) :
                /\ Admit(lim, [op |-> "availability", doctor |-> caller.id,
                               date |-> dt, start |-> st, end |-> en,
                               row |-> row])
                /\ UNCHANGED resp
  /\ UNCHANGED <<appts, notes, avail, directory, today, page>>

\* if availability: overwrite start_time, end_time; else add a row
UpsertAvailability(r) ==
  IF r.row # NoRow
    THEN [avail EXCEPT ![r.row].start = r.start, ![r.row].end = r.end]
    ELSE Append(avail, [doctor |-> r.doctor, date |-> r.date,
                        start |-> r.start, end |-> r.end])

AvailabilityCommit(r) ==
  /\ r.op = "availability"
  /\ r.row = NoRow => Len(avail) < MaxAvail
  /\ Retire(r)
  /\ LET tbl == UpsertAvailability(r)
     IN IF r.row = NoRow /\ ViolatesUniqDoctorDate(tbl, Len(tbl))
          THEN avail' = avail /\ Respond(IntegrityFault)
          ELSE avail' = tbl /\ Respond(AvailabilitySaved)
  /\ UNCHANGED <<appts, notes, directory, today, page>>

\* ------------------------------------------- toggle_doctor, toggle_patient
\* The two flags of doctor d: doctor.is_active and doctor.user.is_active.
DoctorFlags(d) == [doctor |-> doctor_is_active[d], user |-> doctor_user_is_active[d]]

\* A toggle that leaves the flag of the user alone.
ToggledDoctorOnly(f) == [doctor |-> ~f.doctor, user |-> f.user]

\* A toggle that gives the user the flag the doctor had.
ToggledApart(f) == [doctor |-> ~f.doctor, user |-> f.doctor]

\* doctor.is_active = not doctor.is_active
\* doctor.user.is_active = doctor.is_active
Toggled(f) == [doctor |-> ~f.doctor, user |-> ~f.doctor]

ToggleDoctor(caller, d) ==
  /\ IF ~RoleAllowed(caller, ADMIN)
       THEN Respond(Forbidden)
            /\ UNCHANGED <<doctor_is_active, doctor_user_is_active>>
       ELSE /\ doctor_is_active' =
                 [doctor_is_active EXCEPT ![d] = Toggled(DoctorFlags(d)).doctor]
            /\ doctor_user_is_active' =
                 [doctor_user_is_active EXCEPT ![d] = Toggled(DoctorFlags(d)).user]
            /\ Respond(DoctorToggled)
  /\ UNCHANGED <<appts, notes, avail, patient_user_is_active, doctor_profile,
                 patient_profile, today, page, pending>>

\* request.form.get(key, default)
FormGet(form, key, default) == IF key \in DOMAIN form THEN form[key] ELSE default

UpdateDoctor(caller, d, form) ==
  /\ IF ~RoleAllowed(caller, ADMIN)
       THEN Respond(Forbidden) /\ UNCHANGED doctor_profile
       ELSE /\ doctor_profile' = [doctor_profile EXCEPT ![d] =
                 [full_name |-> FormGet(form, "full_name", @.full_name),
                  phone |-> FormGet(form, "phone", @.phone),
                  specialization |-> FormGet(form, "specialization", @.specialization),
                  department_id |-> FormGet(form, "department_id", @.department_id),
                  room |-> FormGet(form, "room", @.room),
                  availability_summary |->
                    FormGet(form, "availability_summary", @.availability_summary)]]
            /\ Respond(DoctorUpdated)
  /\ UNCHANGED <<appts, notes, avail, doctor_is_active, doctor_user_is_active,
                 patient_user_is_active, patient_profile, today, page, pending>>

AdminUpdatePatient(caller, p, form) ==
  /\ IF ~RoleAllowed(caller, ADMIN)
       THEN Respond(Forbidden) /\ UNCHANGED patient_profile
       ELSE /\ patient_profile' = [patient_profile EXCEPT ![p] =
                 [full_name |-> FormGet(form, "full_name", @.full_name),
                  phone |-> FormGet(form, "phone", @.phone),
                  address |-> FormGet(form, "address", @.address),
                  blood_group |-> FormGet(form, "blood_group", @.blood_group)]]
            /\ Respond(PatientUpdated)
  /\ UNCHANGED <<appts, notes, avail, doctor_is_active, doctor_user_is_active,
                 patient_user_is_active, doctor_profile, today, page, pending>>

\* A toggle that also cancels the appointments of the patient.
TogglePatientCancels(caller, p) ==
  /\ RoleAllowed(caller, ADMIN)
  /\ patient_user_is_active' = [patient_user_is_active EXCEPT ![p] = ~@]
  /\ appts' = [i \in DOMAIN appts |->
                 IF appts[i].patient = p
                   THEN [appts[i] EXCEPT !.status = CANCELLED]
                   ELSE appts[i]]
  /\ Respond(PatientToggled)
  /\ UNCHANGED <<notes, avail, doctor_is_active, doctor_user_is_active,
                 doctor_profile, patient_profile, today, page, pending>>

TogglePatient(caller, p) ==
  /\ IF ~RoleAllowed(caller, ADMIN)
       THEN Respond(Forbidden) /\ UNCHANGED patient_user_is_active
       ELSE /\ patient_user_is_active' = [patient_user_is_active EXCEPT ![p] = ~@]
            /\ Respond(PatientToggled)
  /\ UNCHANGED <<appts, notes, avail, doctor_is_active, doctor_user_is_active,
                 doctor_profile, patient_profile, today, page, pending>>

\* -------------------------------------------------- doctor_patient_history
\* A relationship that a Cancelled appointment does not make.
HasUncancelledRelationship(d, p) ==
  \E i \in DOMAIN appts :
    appts[i].patient = p /\ appts[i].doctor = d /\ appts[i].status # CANCELLED

\* Appointment.query.filter_by(patient_id, doctor_id).count() > 0
HasRelationship(d, p) ==
  \E i \in DOMAIN appts : appts[i].patient = p /\ appts[i].doctor = d

\* Appointment.query.filter_by(patient_id, doctor_id)
HistoryRows(d, p) ==
  {i \in DOMAIN appts : appts[i].patient = p /\ appts[i].doctor = d}

\* .order_by(appointment_date.desc()).all(): the rows, each once, the later
\* date first, rows of one date in any order
Histories(d, p) ==
  LET rows == HistoryRows(d, p)
  IN {h \in [1..Cardinality(rows) -> rows] :
        /\ \A j, k \in DOMAIN h : j # k => h[j] # h[k]
        /\ \A j, k \in DOMAIN h : j < k => appts[h[j]].date >= appts[h[k]].date}

DoctorPatientHistory(caller, p) ==
  /\ IF ~RoleAllowed(caller, DOCTOR)
       THEN Respond(Forbidden) /\ UNCHANGED page
       ELSE IF p \notin Patients
         THEN Respond(NotFound) /\ UNCHANGED page
         ELSE IF ~HasRelationship(caller.id, p)
           THEN Respond(Forbidden) /\ UNCHANGED page
           ELSE /\ \E h \in Histories(caller.id, p) :
                     page' = [patient |-> p, doctor |-> caller.id, history |-> h]
                /\ Respond(HistoryPage)
  /\ UNCHANGED <<appts, notes, avail, directory, today, pending>>

\* ----------------------------------------- login_required, is_authenticated
\* users.is_active of the caller's user; no route writes the admin's.
UserIsActive(caller) ==
  CASE caller.role = PATIENT -> patient_user_is_active[caller.id]
    [] caller.role = DOCTOR -> doctor_user_is_active[caller.id]
    [] OTHER -> TRUE

\* current_user.is_authenticated of a caller with a session.  User takes it
\* from flask_login.UserMixin, where it is True or self.is_active by the
\* version of Flask-Login, and User.is_active is the column: either value.
IsAuthenticated(caller) == {TRUE, UserIsActive(caller)}

\* @login_required and the first test of role_required: the view runs for an
\* authenticated caller, any other is sent to the login page.
LoginRequired(caller, view) ==
  \E ok \in IsAuthenticated(caller) :
    IF ok
      THEN view
      ELSE /\ Respond(Unauthorized)
           /\ UNCHANGED <<appts, notes, avail, directory, today, page, pending>>

\* date.today() moves on between requests
DayPasses ==
  /\ today < MaxToday
  /\ today' = today + 1
  /\ UNCHANGED <<appts, notes, avail, directory, pending, resp, page>>

\* ----------------------------------------------------------- the requests
BookRequest(lim, CC, DD, SL) ==
  \E c \in CC, d \in DD, dep \in Departments, sl \in SL :
    BookCheck(lim, c, d, dep, sl[1], sl[2])

ReschedRequest(lim, CC, SL) ==
  \E c \in CC, id \in ApptIds, sl \in SL :
    ReschedCheck(lim, c, id, sl[1], sl[2])

CancelRequest(CC) ==
  \E c \in CC, id \in ApptIds : CancelAppointment(c, id)

ClinicalRequest(CC, ST, TX) ==
  \E c \in CC, id \in ApptIds, st \in ST, tx \in TX :
    UpdateAppointmentStatus(c, id, st, tx)

AdminStatusRequest(CC, ST) ==
  \E c \in CC, id \in ApptIds, st \in ST : AdminUpdateAppointment(c, id, st)

ClinicalRace(lim, CC, ST, TX) ==
  \E c \in CC, id \in ApptIds, st \in ST, tx \in TX :
    ClinicalCheck(lim, c, id, st, tx)

AvailabilityRequest(lim, CC, DT, TM) ==
  \E c \in CC, dt \in DT, tm \in TM :
    AvailabilityCheck(lim, c, dt, tm[1], tm[2])



\* ------------------------------------------------------------ the inputs
NoteForms == {<<"Flu", "Rest", "">>}

\* Dates of the availability form: with today = 0 and today = 1 they fall
\* before today, on today, on today + 7 and after today + 7.
AvailDates == {-1, 0, 8, 9}
AvailTimes == {<<9, 12>>, <<13, 17>>}

Only(role) == {c \in Callers : c.role = role}

\* The scheduler, one request at a time between its read and its commit, each
\* route with the callers of its role (NextRoles has the others).
Next ==
  \/ BookRequest(1, Only(PATIENT), Doctors, DaySlots)
  \/ \E r \in BagToSet(pending) : BookCommit(r)
  \/ ReschedRequest(1, Only(PATIENT), DaySlots)
  \/ \E r \in BagToSet(pending) : ReschedCommit(r)
  \/ CancelRequest(Only(PATIENT))
  \/ ClinicalRequest(Only(DOCTOR), StatusForms, NoteForms)
  \/ AdminStatusRequest(Only(ADMIN), StatusForms)

Spec == Init /\ [][Next]_vars

\* The scheduler with two requests interleaved, all of one patient.
OnePatient == {[role |-> PATIENT, id |-> 1]}

NextRace ==
  \/ BookRequest(MaxPending, OnePatient, Doctors, HourSlots)
  \/ \E r \in BagToSet(pending) : BookCommit(r)
  \/ ReschedRequest(MaxPending, OnePatient, HourSlots)
  \/ \E r \in BagToSet(pending) : ReschedCommit(r)
  \/ CancelRequest(OnePatient)
  \/ ClinicalRequest(Only(DOCTOR), {"COMPLETED"}, NoteForms)
  \/ AdminStatusRequest(Only(ADMIN), {"BOOKED"})

SpecRace == Init /\ [][NextRace]_vars

\* The availability manager, requests interleaved, as the days pass.
NextAvail ==
  \/ AvailabilityRequest(MaxPending, CallersOf(DOCTOR), AvailDates, AvailTimes)
  \/ \E r \in BagToSet(pending) : AvailabilityCommit(r)
  \/ DayPasses

SpecAvail == Init /\ [][NextAvail]_vars

\* Every operation, one request at a time, on one doctor and one day.
NextAll ==
  \/ BookRequest(1, CallersOf(PATIENT), {1}, DaySlots)
  \/ \E r \in BagToSet(pending) : BookCommit(r)
  \/ ReschedRequest(1, CallersOf(PATIENT), DaySlots)
  \/ \E r \in BagToSet(pending) : ReschedCommit(r)
  \/ CancelRequest(CallersOf(PATIENT))
  \/ ClinicalRequest({[role |-> DOCTOR, id |-> 1]}, {"COMPLETED"}, NoteForms)
  \/ AdminStatusRequest(CallersOf(ADMIN), {"BOOKED"})
  \/ AvailabilityRequest(1, {[role |-> DOCTOR, id |-> 1]}, {0, 8}, {<<9, 12>>})
  \/ \E r \in BagToSet(pending) : AvailabilityCommit(r)
  \/ \E c \in CallersOf(ADMIN) : ToggleDoctor(c, 1)
  \/ \E c \in CallersOf(ADMIN) : TogglePatient(c, 1)

SpecAll == Init /\ [][NextAll]_vars

\* The doctors' updates interleaved, on the appointments of one patient.
NoteRewrites == NoteForms \cup {<<"", "", "Recheck">>}

NextNotes ==
  \/ BookRequest(1, OnePatient, {1}, DaySlots)
  \/ \E r \in BagToSet(pending) : BookCommit(r)
  \/ ClinicalRace(MaxPending, CallersOf(DOCTOR), {"COMPLETED", "none"}, NoteRewrites)
  \/ \E r \in BagToSet(pending) : ClinicalCommit(r)

SpecNotes == Init /\ [][NextNotes]_vars

\* Every route that writes, tried by an admin, a doctor and a patient.
OneOfEach ==
  {[role |-> ADMIN, id |-> 0], [role |-> DOCTOR, id |-> 1], [role |-> PATIENT, id |-> 1]}

OneSlot == {<<0, 10>>}
DoctorForms == {[specialization |-> "ENT", room |-> "102"]}
PatientForms == {[address |-> "1 Main St", blood_group |-> "A+"]}

NextRoles ==
  \/ BookRequest(1, OneOfEach, {1}, OneSlot)
  \/ \E r \in BagToSet(pending) : BookCommit(r)
  \/ ReschedRequest(1, OneOfEach, OneSlot)
  \/ \E r \in BagToSet(pending) : ReschedCommit(r)
  \/ CancelRequest(OneOfEach)
  \/ ClinicalRequest(OneOfEach, {"COMPLETED"}, NoteForms)
  \/ AdminStatusRequest(OneOfEach, {"BOOKED"})
  \/ AvailabilityRequest(1, OneOfEach, {0}, {<<9, 12>>})
  \/ \E r \in BagToSet(pending) : AvailabilityCommit(r)
  \/ \E c \in OneOfEach : ToggleDoctor(c, 1)
  \/ \E c \in OneOfEach : TogglePatient(c, 1)
  \/ \E c \in OneOfEach, f \in DoctorForms : UpdateDoctor(c, 1, f)
  \/ \E c \in OneOfEach, f \in PatientForms : AdminUpdatePatient(c, 1, f)

SpecRoles == Init /\ [][NextRoles]_vars

\* The doctors read the histories of the patients while the patients book and
\* cancel; patient 3 is no patient.
PatientIds == Patients \cup {3}

NextHistory ==
  \/ BookRequest(1, Only(PATIENT), Doctors, HourSlots)
  \/ \E r \in BagToSet(pending) : BookCommit(r)
  \/ CancelRequest(Only(PATIENT))
  \/ \E c \in CallersOf(DOCTOR), p \in PatientIds : DoctorPatientHistory(c, p)

SpecHistory == Init /\ [][NextHistory]_vars

\* A patient whom the admin deactivates and activates again, and whose session
\* stays open, with the patient's doctor at work.
OneDoctor == {[role |-> DOCTOR, id |-> 1]}

NextSession ==
  \/ \E c \in OnePatient, sl \in DaySlots :
       LoginRequired(c, BookCheck(1, c, 1, 1, sl[1], sl[2]))
  \/ \E r \in BagToSet(pending) : BookCommit(r)
  \/ \E c \in OnePatient, id \in ApptIds, sl \in DaySlots :
       LoginRequired(c, ReschedCheck(1, c, id, sl[1], sl[2]))
  \/ \E r \in BagToSet(pending) : ReschedCommit(r)
  \/ \E c \in OnePatient, id \in ApptIds :
       LoginRequired(c, CancelAppointment(c, id))
  \/ \E c \in OneDoctor, id \in ApptIds, tx \in NoteForms :
       LoginRequired(c, UpdateAppointmentStatus(c, id, "COMPLETED", tx))
  \/ \E c \in OneDoctor : LoginRequired(c, AvailabilityCheck(1, c, 0, 9, 12))
  \/ \E r \in BagToSet(pending) : AvailabilityCommit(r)
  \/ \E c \in Only(ADMIN) : LoginRequired(c, TogglePatient(c, 1))

SpecSession == Init /\ [][NextSession]_vars

\* The book form with ids of its own: int(request.form["doctor_id"]) and
\* int(request.form["department_id"]) are any integers, 3 and 2 the ids of no
\* row.  The tables are in SQLite, which enforces no foreign key unless
\* PRAGMA foreign_keys is set, and the application never sets it.
DoctorIds == Doctors \cup {3}
DepartmentIds == Departments \cup {2}

NextForm ==
  \/ \E c \in OnePatient, d \in DoctorIds, dep \in DepartmentIds, sl \in DaySlots :
       BookCheck(1, c, d, dep, sl[1], sl[2])
  \/ \E r \in BagToSet(pending) : BookCommit(r)
  \/ ReschedRequest(1, OnePatient, DaySlots)
  \/ \E r \in BagToSet(pending) : ReschedCommit(r)
  \/ CancelRequest(OnePatient)

SpecForm == Init /\ [][NextForm]_vars

\* A doctor who saves hours for a day, in the window and before it, while a
\* patient books and moves appointments of that day; 10:00 and 11:00 lie in
\* the hours 9 to 12 and outside the hours 13 to 17.
HoursDates == {-1, 0}

NextHours ==
  \/ BookRequest(1, OnePatient, {1}, DaySlots)
  \/ \E r \in BagToSet(pending) : BookCommit(r)
  \/ ReschedRequest(1, OnePatient, DaySlots)
  \/ \E r \in BagToSet(pending) : ReschedCommit(r)
  \/ AvailabilityRequest(1, OneDoctor, HoursDates, AvailTimes)
  \/ \E r \in BagToSet(pending) : AvailabilityCommit(r)

SpecHours == Init /\ [][NextHours]_vars

\* ================================================================ claims

\* The slot of request r is held by a row of the table.
SlotHeld(r) ==
  \E i \in DOMAIN appts :
    appts[i].doctor = r.doctor /\ appts[i].date = r.date /\ appts[i].time = r.time

\* C1: in every reachable state, under any interleaving of book and
\* reschedule requests with cancel, the doctor's update and the admin's
\* override in between, no two distinct appointments have the same
\* (doctor, date, time), whatever their statuses.
C1_SlotUnique ==
  \A i, j \in DOMAIN appts :
    (appts[i].doctor = appts[j].doctor /\ appts[i].date = appts[j].date
       /\ appts[i].time = appts[j].time) => i = j

\* C1 witness: the table is full and the commit that finished last was
\* turned down by the constraint.
C1_Witness == Len(appts) = MaxAppts /\ resp = IntegrityFault

\* C2: a book request that passed its pre-check and commits when the slot is
\* meanwhile held (the other request committed first) creates nothing: the
\* table is as before, so of two racing requests at most one adds a row.
C2_LoserCreatesNothing ==
  [][\A r \in BagToSet(pending) :
       (r.op = "book" /\ pending' = pending (-) SetToBag({r}) /\ SlotHeld(r))
         => appts' = appts]_vars

\* C2 witness: two book requests are past their pre-check and the slot of
\* one of them is by now held by a row.
C2_Witness ==
  \E r \in BagToSet(pending) :
    /\ r.op = "book" /\ SlotHeld(r)
    /\ BagCardinality(pending) = 2
    /\ \A q \in BagToSet(pending) : q.op = "book"

\* The row a commit of book request r adds.
RowOf(r) ==
  [patient |-> r.patient, doctor |-> r.doctor, dept |-> r.dept,
   date |-> r.date, time |-> r.time, status |-> "Booked"]

\* C3: a book request by a patient for a (doctor, date, time) that a row of
\* any status holds is answered with a ConflictError, adds no row, admits no
\* request to a later commit, and leaves every row as it was.
C3_TakenSlotRefused ==
  [][\A c \in Only(PATIENT), d \in Doctors, dep \in Departments, sl \in DaySlots :
       (/\ BookCheck(1, c, d, dep, sl[1], sl[2])
        /\ \E i \in DOMAIN appts :
             appts[i].doctor = d /\ appts[i].date = sl[1] /\ appts[i].time = sl[2])
         => (resp' \in ConflictError /\ appts' = appts /\ pending' = pending)]_vars

\* C3 witness: the only appointment is Cancelled and a book request has just
\* been refused its slot.
C3_Witness ==
  Len(appts) = 1 /\ appts[1].status = "Cancelled" /\ resp = SlotAlreadyBooked

\* C4: the number of appointments changes only by the commit of a book
\* request, which adds exactly one row, with the request's patient, doctor,
\* department, date and time and status Booked; the request carries the id
\* of the patient who made it; and a booking that is answered as booked has
\* added its row.  No other operation changes the number of rows.
C4_OnlyBookCreates ==
  [][/\ Len(appts') # Len(appts) =>
          \E r \in BagToSet(pending) :
            /\ r.op = "book"
            /\ pending' = pending (-) SetToBag({r})
            /\ resp' = Booked
            /\ appts' = Append(appts, RowOf(r))
     /\ \A r \in BagToSet(pending') :
          (r.op = "book" /\ ~BagIn(r, pending)) =>
            \E c \in Only(PATIENT) :
              c.id = r.patient /\ BookCheck(1, c, r.doctor, r.dept, r.date, r.time)
     /\ \A r \in BagToSet(pending) :
          (r.op = "book" /\ pending' = pending (-) SetToBag({r}) /\ resp' = Booked)
            => Len(appts') = Len(appts) + 1]_vars

\* C4 witness: two appointments have been booked and the availability manager
\* and both toggles have acted as well.
C4_Witness ==
  /\ Len(appts) = 2
  /\ Len(avail) > 0
  /\ ~doctor_is_active[1]
  /\ ~patient_user_is_active[1]

\* A step of admin_update_appointment.
AdminStep ==
  \E c \in Callers, id \in ApptIds, st \in StatusForms :
    AdminUpdateAppointment(c, id, st)

\* C5 as stated: outside the admin's override, an appointment that is
\* Completed or Cancelled keeps its status.
C5_Original ==
  [][\A i \in DOMAIN appts :
       (appts[i].status \in {"Completed", "Cancelled"} /\ ~AdminStep)
         => appts'[i].status = appts[i].status]_vars

\* C5 as amended: outside the admin's override a status changes only by the
\* owning patient's cancel (to Cancelled, from any status), by the commit of
\* the owning patient's reschedule (to Booked, from any status), or by the
\* assigned doctor's update with the name of a status (to that status, from
\* any status).
C5_StatusChanges ==
  [][\A i \in DOMAIN appts :
       (i \in DOMAIN appts' /\ appts'[i].status # appts[i].status) =>
         \/ AdminStep
         \/ /\ appts'[i].status = "Cancelled"
            /\ \E c \in Only(PATIENT) :
                 c.id = appts[i].patient /\ CancelAppointment(c, i)
         \/ /\ appts'[i].status = "Booked"
            /\ \E r \in BagToSet(pending) :
                 r.op = "reschedule" /\ r.id = i /\ ReschedCommit(r)
         \/ \E c \in Only(DOCTOR), st \in {"BOOKED", "COMPLETED", "CANCELLED"},
                 tx \in NoteForms :
              /\ c.id = appts[i].doctor
              /\ appts'[i].status = AppointmentStatusByName(st)
              /\ UpdateAppointmentStatus(c, i, st, tx)]_vars

\* C5 witness: a reschedule of a Cancelled appointment is past its checks,
\* its commit makes the appointment Booked again.
C5_Witness ==
  \E r \in BagToSet(pending) :
    r.op = "reschedule" /\ appts[r.id].status = "Cancelled"

\* The reschedule request for appointment id and (dt, tm), once admitted.
Move(id, dt, tm) == [op |-> "reschedule", id |-> id, date |-> dt, time |-> tm]

\* C6: a reschedule by the owning patient to the appointment's own current
\* (date, time) succeeds: its pre-check does not take the appointment's own
\* row for a conflict (the request goes on to its commit), and the commit of
\* a reschedule to the row's current (date, time) is answered as rescheduled
\* and leaves date and time as they are.
C6_OwnSlotReschedule ==
  [][/\ \A c \in Only(PATIENT), id \in ApptIds, sl \in DaySlots :
          (/\ ReschedCheck(1, c, id, sl[1], sl[2])
           /\ id \in DOMAIN appts
           /\ appts[id].patient = c.id
           /\ appts[id].date = sl[1] /\ appts[id].time = sl[2])
            => (/\ pending' = pending (+) SetToBag({Move(id, sl[1], sl[2])})
                /\ resp' = resp)
     /\ \A r \in BagToSet(pending) :
          (/\ r.op = "reschedule"
           /\ ReschedCommit(r)
           /\ appts[r.id].date = r.date /\ appts[r.id].time = r.time)
            => (/\ resp' = Rescheduled
                /\ appts'[r.id].date = appts[r.id].date
                /\ appts'[r.id].time = appts[r.id].time)]_vars

\* C6 witness: a reschedule to the appointment's own (date, time) is past its
\* pre-check.
C6_Witness ==
  \E r \in BagToSet(pending) :
    r.op = "reschedule" /\ appts[r.id].date = r.date /\ appts[r.id].time = r.time

\* C7: a reschedule by a patient who does not own the appointment is answered
\* with a ForbiddenError, and one by the owner to a (date, time) that another
\* appointment of the same doctor holds with a ConflictError; in both cases
\* no row changes and no request is admitted to a commit.
C7_FailedRescheduleChangesNothing ==
  [][\A c \in Only(PATIENT), id \in ApptIds, sl \in DaySlots :
       (ReschedCheck(1, c, id, sl[1], sl[2]) /\ id \in DOMAIN appts) =>
         /\ appts[id].patient # c.id =>
              (resp' \in ForbiddenError /\ appts' = appts /\ pending' = pending)
         /\ (/\ appts[id].patient = c.id
             /\ \E j \in DOMAIN appts :
                  /\ j # id
                  /\ appts[j].doctor = appts[id].doctor
                  /\ appts[j].date = sl[1] /\ appts[j].time = sl[2]) =>
              (resp' \in ConflictError /\ appts' = appts /\ pending' = pending)]_vars

\* C7 witness: a reschedule has just been refused for a conflict, between two
\* appointments of one doctor.
C7_Witness ==
  /\ resp = SlotUnavailable
  /\ Len(appts) = 2
  /\ appts[1].doctor = appts[2].doctor

\* C8: the commit of a reschedule that is answered as rescheduled sets the
\* appointment's date and time to the requested ones and its status to
\* Booked, whatever the status was, and changes nothing else of it (patient,
\* doctor, department) and no other appointment.
C8_RescheduleEffect ==
  [][\A r \in BagToSet(pending) :
       (r.op = "reschedule" /\ ReschedCommit(r) /\ resp' = Rescheduled) =>
         /\ appts'[r.id] =
              [appts[r.id] EXCEPT !.date = r.date, !.time = r.time,
                                  !.status = "Booked"]
         /\ \A j \in DOMAIN appts : j # r.id => appts'[j] = appts[j]
         /\ DOMAIN appts' = DOMAIN appts]_vars

\* C8 witness: an appointment has just been rescheduled to the second time of
\* the day and is Booked.
C8_Witness ==
  /\ resp = Rescheduled
  /\ \E i \in DOMAIN appts :
       appts[i].status = "Booked" /\ appts[i].date = 0 /\ appts[i].time = 11

\* C9: a cancel by the owning patient sets the status to Cancelled from any
\* status and changes nothing else, so that a cancel of a Cancelled
\* appointment leaves every table as it is; a cancel by a patient who does not
\* own the appointment is answered with a ForbiddenError and changes nothing.
C9_Cancel ==
  [][\A c \in Only(PATIENT), id \in ApptIds :
       (CancelAppointment(c, id) /\ id \in DOMAIN appts) =>
         /\ appts[id].patient = c.id =>
              /\ appts' = [appts EXCEPT ![id].status = "Cancelled"]
              /\ appts[id].status = "Cancelled" => appts' = appts
              /\ resp' = Cancelled
              /\ UNCHANGED <<notes, avail, directory, pending>>
         /\ appts[id].patient # c.id =>
              /\ resp' \in ForbiddenError
              /\ UNCHANGED <<appts, notes, avail, directory, pending>>]_vars

\* C9 witness: an appointment that the doctor had updated has just been
\* cancelled.
C9_Witness ==
  /\ resp = Cancelled
  /\ \E i \in DOMAIN appts : appts[i].status = "Cancelled" /\ NoteRows(i) # {}

\* C10: an availability request with a date before today or after today + 7
\* is answered with an OutOfWindowError, changes no availability row and
\* admits nothing to a commit; one for today or for today + 7 is admitted.
C10_Window ==
  [][\A c \in Only(DOCTOR), dt \in AvailDates, tm \in AvailTimes :
       AvailabilityCheck(MaxPending, c, dt, tm[1], tm[2]) =>
         /\ (dt < today \/ dt > today + 7) =>
              (resp' \in OutOfWindowError /\ avail' = avail /\ pending' = pending)
         /\ (dt = today \/ dt = today + 7) =>
              (/\ \E r \in BagToSet(pending') :
                    /\ r.op = "availability" /\ r.doctor = c.id /\ r.date = dt
                    /\ pending' = pending (+) SetToBag({r})
               /\ resp' = resp)]_vars

\* C10 witness: a day has passed, a row has been saved and a request has just
\* been refused for its date.
C10_Witness == resp = OutsideWindow /\ Len(avail) > 0 /\ today = 1

\* C11: no two availability rows have the same (doctor, date), before and
\* after every step, with two requests interleaved; the commit of a request
\* that found a row for its (doctor, date) sets that row's start and end to
\* the request's and adds no row; and the commit of a request that found no
\* row, when a row for its (doctor, date) has been saved meanwhile, adds none.
C11_AvailabilityUnique ==
  [][/\ \A i, j \in DOMAIN avail' :
          (avail'[i].doctor = avail'[j].doctor /\ avail'[i].date = avail'[j].date)
            => i = j
     /\ \A r \in BagToSet(pending) :
          (r.op = "availability" /\ AvailabilityCommit(r)) =>
            /\ r.row # NoRow =>
                 /\ avail' = [avail EXCEPT ![r.row].start = r.start,
                                           ![r.row].end = r.end]
                 /\ avail[r.row].doctor = r.doctor /\ avail[r.row].date = r.date
            /\ (\E i \in DOMAIN avail :
                  avail[i].doctor = r.doctor /\ avail[i].date = r.date)
                 => Len(avail') = Len(avail)]_vars

\* C11 witness: of two requests that both found no row one has saved its row
\* and the other has just been turned down by the constraint, while a third
\* request, which found the row, is about to overwrite its times.
C11_Witness ==
  /\ resp = IntegrityFault
  /\ \E r \in BagToSet(pending) :
       r.op = "availability" /\ r.row # NoRow /\ avail[r.row].start # r.start

\* C12: the update of an appointment by a doctor who is not the appointment's
\* doctor is answered with a ForbiddenError and changes no appointment (so not
\* the status) and no treatment note (so none is added either).
C12_OtherDoctorRefused ==
  [][\A c \in Only(DOCTOR), id \in ApptIds, st \in StatusForms, tx \in NoteForms :
       (/\ id \in DOMAIN appts
        /\ appts[id].doctor # c.id
        /\ UpdateAppointmentStatus(c, id, st, tx))
         => (resp' \in ForbiddenError /\ appts' = appts /\ notes' = notes)]_vars

\* C12 witness: a request has just been refused while there are an appointment
\* of doctor 1 that has its note and one of doctor 2 that has none.
C12_Witness ==
  /\ resp = Forbidden
  /\ \E i, j \in DOMAIN appts :
       /\ appts[i].doctor = 1 /\ NoteRows(i) # {}
       /\ appts[j].doctor = 2 /\ NoteRows(j) = {}

\* C13 as stated: when the appointment's doctor sends the update with the
\* status "Booked", "Completed" or "Cancelled" (the values of the statuses),
\* the appointment's status becomes that value and the appointment has a
\* treatment note.
C13_Original ==
  [][\A c \in Only(DOCTOR), id \in ApptIds, tx \in NoteForms,
        st \in {"Booked", "Completed", "Cancelled"} :
       (/\ UpdateAppointmentStatus(c, id, st, tx)
        /\ id \in DOMAIN appts
        /\ appts[id].doctor = c.id)
         => (/\ appts'[id].status = st
             /\ \E n \in DOMAIN notes' : notes'[n].appointment = id)]_vars

\* C14: no appointment has two treatment notes, before and after every step,
\* with two updates interleaved; the commit of an update that is answered as
\* updated adds the note when the appointment has none, and otherwise sets
\* the diagnosis, prescription and notes of the appointment's one note to the
\* form's values, empty strings included, and adds no note; no other note
\* changes.
C14_OneNote ==
  [][/\ \A m, n \in DOMAIN notes' :
          notes'[m].appointment = notes'[n].appointment => m = n
     /\ \A r \in BagToSet(pending) :
          (r.op = "clinical" /\ ClinicalCommit(r) /\ resp' = ClinicalUpdated) =>
            LET new == [appointment |-> r.id, diagnosis |-> r.text[1],
                        prescription |-> r.text[2], notes |-> r.text[3]]
                had == {n \in DOMAIN notes : notes[n].appointment = r.id}
            IN IF had = {}
                 THEN notes' = Append(notes, new)
                 ELSE /\ Len(notes') = Len(notes)
                      /\ \A n \in DOMAIN notes :
                           notes'[n] = IF n \in had THEN new ELSE notes[n]]_vars

\* C14 witness: of two updates that both found no note one has been turned
\* down by the constraint, and an update that found the note written with a
\* diagnosis is about to overwrite it with an empty diagnosis.
C14_Witness ==
  /\ resp = IntegrityFault
  /\ \E r \in BagToSet(pending) :
       /\ r.op = "clinical" /\ r.note # NoRow
       /\ notes[r.note].diagnosis = "Flu" /\ r.text[1] = ""

Refused ==
  /\ resp' \in ForbiddenError
  /\ UNCHANGED <<appts, notes, avail, directory, pending>>

\* C16: a request to a route that writes, by a caller whose role is not the
\* route's, is refused and the store is unchanged: book, reschedule and
\* cancel by anyone but a patient; the doctor's update and the availability
\* form by anyone but a doctor; the admin's status override, the two toggles
\* and the two profile updates by anyone but an admin.
C16_RoleGate ==
  [][\A c \in OneOfEach, id \in ApptIds :
       /\ c.role # "patient" =>
            /\ \A sl \in OneSlot :
                 (BookCheck(1, c, 1, 1, sl[1], sl[2])
                    \/ ReschedCheck(1, c, id, sl[1], sl[2])) => Refused
            /\ CancelAppointment(c, id) => Refused
       /\ c.role # "doctor" =>
            /\ \A tx \in NoteForms :
                 UpdateAppointmentStatus(c, id, "COMPLETED", tx) => Refused
            /\ AvailabilityCheck(1, c, 0, 9, 12) => Refused
       /\ c.role # "admin" =>
            /\ AdminUpdateAppointment(c, id, "BOOKED") => Refused
            /\ (ToggleDoctor(c, 1) \/ TogglePatient(c, 1)) => Refused
            /\ \A f \in DoctorForms : UpdateDoctor(c, 1, f) => Refused
            /\ \A f \in PatientForms : AdminUpdatePatient(c, 1, f) => Refused]_vars

\* C16 witness: a caller of the wrong role has just been refused (with one
\* patient and one doctor nobody is refused for another reason), where every
\* table has a row and the flags and both profiles have been written.
C16_Witness ==
  /\ resp = Forbidden
  /\ Len(appts) > 0 /\ Len(notes) > 0 /\ Len(avail) > 0
  /\ ~doctor_is_active[1] /\ ~patient_user_is_active[1]
  /\ doctor_profile[1].room = "102"
  /\ patient_profile[1].blood_group = "A+"

\* C17: a doctor's request for the history of a patient is granted exactly
\* when an appointment of that patient with that doctor exists, of whatever
\* status, and is otherwise answered with a ForbiddenError; the history it
\* renders holds the appointments of that patient with that doctor, each
\* once, and no other appointment.
C17_History ==
  [][\A c \in Only(DOCTOR), p \in Patients :
       DoctorPatientHistory(c, p) =>
         LET between == {i \in DOMAIN appts :
                           appts[i].doctor = c.id /\ appts[i].patient = p}
         IN /\ between = {} => (resp' \in ForbiddenError /\ page' = page)
            /\ between # {} =>
                 /\ resp' = HistoryPage
                 /\ page'.patient = p /\ page'.doctor = c.id
                 /\ {page'.history[k] : k \in DOMAIN page'.history} = between
                 /\ Len(page'.history) = Cardinality(between)]_vars

\* C17 witness: a doctor has been shown the history of a patient whose only
\* appointment with them is Cancelled, while the other appointment is of
\* another patient or another doctor.
C17_Witness ==
  /\ resp = HistoryPage
  /\ Len(appts) = 2
  /\ Len(page.history) = 1
  /\ appts[page.history[1]].status = "Cancelled"

\* C18: in every reachable state and for every doctor, two toggles one after
\* the other give the doctor's flag and the flag of the doctor's user the
\* values they have now.
C18_ToggleTwice ==
  \A d \in Doctors : Toggled(Toggled(DoctorFlags(d))) = DoctorFlags(d)

\* C18 witness: the doctor who was deactivated is active again, by the toggle
\* that has just finished, and so is the doctor's user.
C18_Witness ==
  /\ resp = DoctorToggled
  /\ doctor_is_active[1] /\ doctor_user_is_active[1]
  /\ Len(appts) = 2

\* C19 as stated: a book request that names a doctor who was deactivated
\* when the request was made (the doctor is not among the active doctors the
\* handler read) adds no appointment.
C19_Original ==
  [][\A r \in BagToSet(pending) :
       (r.op = "book" /\ BookCommit(r) /\ r.doctor \notin r.doctors)
         => appts' = appts]_vars

\* C20 as stated: the commit of a book, reschedule or availability request,
\* also of the one that comes second of two interleaved requests that both
\* passed the pre-check, ends with its success or with a ConflictError, never
\* with an unhandled fault, and a commit that does not succeed writes nothing.
C20_Original ==
  [][\A r \in BagToSet(pending) :
       (BookCommit(r) \/ ReschedCommit(r) \/ AvailabilityCommit(r)) =>
         /\ resp' \notin UnhandledFault
         /\ \/ resp' \in {Booked, Rescheduled, AvailabilitySaved}
            \/ resp' \in ConflictError /\ UNCHANGED <<appts, notes, avail>>]_vars

\* What the three routes of a patient do for caller c, with the form's
\* appointment id and slot.
PatientCall(c, id, sl) ==
  \/ BookCheck(1, c, 1, 1, sl[1], sl[2])
  \/ ReschedCheck(1, c, id, sl[1], sl[2])
  \/ CancelAppointment(c, id)

\* The same three routes behind the login gate.
GatedPatientCall(c, id, sl) ==
  \/ LoginRequired(c, BookCheck(1, c, 1, 1, sl[1], sl[2]))
  \/ LoginRequired(c, ReschedCheck(1, c, id, sl[1], sl[2]))
  \/ LoginRequired(c, CancelAppointment(c, id))

\* The toggle of patient p flips the flag of p's user and writes nothing else.
ToggleFrame ==
  \A c \in Only(ADMIN), p \in Patients :
    TogglePatient(c, p) =>
      /\ patient_user_is_active' =
           [patient_user_is_active EXCEPT ![p] = ~patient_user_is_active[p]]
      /\ UNCHANGED <<appts, notes, avail, doctor_is_active, doctor_user_is_active,
                     doctor_profile, patient_profile, pending>>

ReferencesExist(tbl) ==
  \A i \in DOMAIN tbl :
    /\ tbl[i].patient \in Patients
    /\ tbl[i].doctor \in Doctors
    /\ tbl[i].dept \in Departments

\* C22 as stated: a book request whose doctor_id or department_id is the id of
\* no row ends with NotFound and appends no appointment, and after every step
\* every appointment references an existing patient, doctor and department.
C22_Original ==
  [][/\ \A r \in BagToSet(pending) :
          /\ r.op = "book"
          /\ r.doctor \notin Doctors \/ r.dept \notin Departments
          /\ BookCommit(r)
          => resp' = NotFound /\ appts' = appts
     /\ ReferencesExist(appts')]_vars

\* Another appointment than id holds the slot (d, dt, tm).
HeldByOther(id, d, dt, tm) ==
  \E j \in DOMAIN appts :
    j # id /\ appts[j].doctor = d /\ appts[j].date = dt /\ appts[j].time = tm

\* C23: update_availability, whether it saves or turns the date away, leaves
\* every appointment as it is; and what book and reschedule answer is settled
\* by the appointments alone: a book of a slot that an appointment holds is
\* refused and any other is admitted and booked, a reschedule to a slot that
\* another appointment of the doctor holds is refused and any other is
\* admitted and done, whatever rows the availability table has.
C23_AvailabilityApart ==
  [][/\ \A c \in OneDoctor, dt \in HoursDates, tm \in AvailTimes :
          AvailabilityCheck(1, c, dt, tm[1], tm[2]) => appts' = appts
     /\ \A r \in BagToSet(pending) : AvailabilityCommit(r) => appts' = appts
     /\ \A c \in OnePatient, sl \in DaySlots :
          BookCheck(1, c, 1, 1, sl[1], sl[2]) =>
            IF HeldByOther(NoRow, 1, sl[1], sl[2])
              THEN resp' = SlotAlreadyBooked /\ pending' = pending
              ELSE resp' = resp /\ pending' # pending
     /\ \A r \in BagToSet(pending) :
          BookCommit(r) => resp' = Booked /\ Len(appts') = Len(appts) + 1
     /\ \A c \in OnePatient, id \in DOMAIN appts, sl \in DaySlots :
          ReschedCheck(1, c, id, sl[1], sl[2]) =>
            IF HeldByOther(id, appts[id].doctor, sl[1], sl[2])
              THEN resp' = SlotUnavailable /\ pending' = pending
              ELSE resp' = resp /\ pending' # pending
     /\ \A r \in BagToSet(pending) :
          ReschedCommit(r) =>
            /\ resp' = Rescheduled
            /\ appts'[r.id].date = r.date /\ appts'[r.id].time = r.time]_vars

\* C23 witness: the doctor has just saved the hours 13 to 17 for day 0, with
\* two Booked appointments of that doctor on day 0, at 10:00 and at 11:00,
\* both outside those hours.
C23_Witness ==
  /\ resp = AvailabilitySaved
  /\ Len(appts) = 2
  /\ \A i \in DOMAIN appts :
       appts[i].doctor = 1 /\ appts[i].date = 0 /\ appts[i].status = BOOKED
  /\ \E i \in DOMAIN avail :
       avail[i].doctor = 1 /\ avail[i].date = 0 /\ avail[i].start = 13

\* C24: in every reachable state the flag of every doctor equals the flag of
\* the doctor's user (both are TRUE when the rows are made), and a step that
\* changes either flag of a doctor is the admin's toggle of that doctor, which
\* gives both the same value: toggle_patient, update_doctor,
\* admin_update_patient and the other routes change neither.
C24_FlagsAgree ==
  /\ [](\A d \in Doctors : doctor_is_active[d] = doctor_user_is_active[d])
  /\ [][\A d \in Doctors :
          (\/ doctor_is_active'[d] # doctor_is_active[d]
           \/ doctor_user_is_active'[d] # doctor_user_is_active[d])
          => /\ \E c \in Only(ADMIN) : ToggleDoctor(c, d)
             /\ doctor_is_active'[d] = ~doctor_is_active[d]
             /\ doctor_user_is_active'[d] = doctor_is_active'[d]]_vars

\* C24 witness: doctor 1 and the doctor's user are both inactive after the
\* admin's toggle, patient 1 has been toggled too and the profile of doctor 1
\* updated since.
C24_Witness ==
  /\ ~doctor_is_active[1] /\ ~doctor_user_is_active[1]
  /\ ~patient_user_is_active[1]
  /\ doctor_profile[1].specialization = "ENT"
  /\ resp = DoctorUpdated

\* C25: under every operation every appointment stays in the table with the
\* patient, the doctor and the department it was made with, and every
\* treatment note stays in its table, the note of the appointment it was
\* made for: cancel, reschedule, the doctor's update and the admin's status
\* change delete no row and write none of these columns.
C25_RowsStay ==
  [][/\ Len(appts') >= Len(appts)
     /\ \A i \in DOMAIN appts :
          /\ appts'[i].patient = appts[i].patient
          /\ appts'[i].doctor = appts[i].doctor
          /\ appts'[i].dept = appts[i].dept
     /\ Len(notes') >= Len(notes)
     /\ \A n \in DOMAIN notes :
          notes'[n].appointment = notes[n].appointment]_vars

\* C25 witness: a reschedule has just finished, and an appointment that got
\* its treatment note when the doctor completed it stands at 11:00, Booked
\* again, with the note still there.
C25_Witness ==
  /\ resp = Rescheduled
  /\ \E i \in DOMAIN appts :
       /\ NoteRows(i) # {}
       /\ appts[i].status = BOOKED /\ appts[i].time = 11

====
